---- MODULE Spec2Model ----
(***************************************************************************)
(* Model of the session configuration resolver (config.ts, resolveConfig)  *)
(* and of the connection-lifecycle manager (weappClient.ts,                *)
(* WeappAutomatorManager) of weapp-dev-mcp.                                *)
(*                                                                         *)
(* JavaScript values are tagged records.  A JavaScript string is the      *)
(* sequence of its pieces, a piece being one white-space character " ",    *)
(* one decimal digit, or a run of other characters kept whole.  A          *)
(* JavaScript object is a function whose DOMAIN is the set of keys the     *)
(* object owns (so "key in obj" is key \in DOMAIN obj, and a key may be    *)
(* owned with the value undefined).                                        *)
(***************************************************************************)
EXTENDS Integers, Sequences, FiniteSets, TLC

\* ------------------------------------------------------------------------
\* JavaScript values
\* ------------------------------------------------------------------------
Undef == [t |-> "undefined"]
Str(s) == [t |-> "string", s |-> s]
Num(n) == [t |-> "number", n |-> n]
Bool(b) == [t |-> "boolean", b |-> b]
Arr(a) == [t |-> "array", a |-> a]
Obj(o) == [t |-> "object", o |-> o]
ErrorObj(m) == [t |-> "error", message |-> m]

\* JavaScript truthiness (ToBoolean); an array is an object, always truthy.
Truthy(v) ==
  CASE v.t = "undefined" -> FALSE
    [] v.t = "string" -> v.s # <<>>
    [] v.t = "number" -> v.n # 0
    [] v.t = "boolean" -> v.b
    [] OTHER -> TRUE

\* obj[key] of a JavaScript object: undefined when the key is not owned.
Get(obj, key) == IF key \in DOMAIN obj THEN obj[key] ELSE Undef

\* { ...a, ...b }: every owned key is copied, an owned undefined included.
Spread(a, b) ==
  [k \in (DOMAIN a) \cup (DOMAIN b) |-> IF k \in DOMAIN b THEN b[k] ELSE a[k]]

EmptyObject == [k \in {} |-> Undef]

Range(s) == {s[i] : i \in DOMAIN s}

\* ------------------------------------------------------------------------
\* Strings
\* ------------------------------------------------------------------------
IsSpace(c) == c = " "

RECURSIVE TrimLeft(_)
TrimLeft(s) ==
  IF s = <<>> THEN <<>>
  ELSE IF IsSpace(Head(s)) THEN TrimLeft(Tail(s)) ELSE s

RECURSIVE TrimRight(_)
TrimRight(s) ==
  IF s = <<>> THEN <<>>
  ELSE IF IsSpace(s[Len(s)]) THEN TrimRight(SubSeq(s, 1, Len(s) - 1)) ELSE s

\* String.prototype.trim
Trim(s) == TrimRight(TrimLeft(s))

\* value.split(/\s+/): the pieces between maximal runs of white space; a
\* leading or trailing run leaves an empty piece at that end.
RECURSIVE SplitFrom(_, _, _)
SplitFrom(s, i, cur) ==
  IF i > Len(s) THEN <<cur>>
  ELSE IF IsSpace(s[i])
       THEN IF i > 1 /\ IsSpace(s[i - 1])
            THEN SplitFrom(s, i + 1, cur)
            ELSE <<cur>> \o SplitFrom(s, i + 1, <<>>)
       ELSE SplitFrom(s, i + 1, Append(cur, s[i]))

SplitWhitespace(s) == SplitFrom(s, 1, <<>>)

\* list.map((item) => item.trim()).filter(Boolean)
RECURSIVE TrimAndFilter(_)
TrimAndFilter(list) ==
  IF list = <<>> THEN <<>>
  ELSE IF Trim(Head(list)) = <<>>
       THEN TrimAndFilter(Tail(list))
       ELSE <<Trim(Head(list))>> \o TrimAndFilter(Tail(list))

Digits == <<"0", "1", "2", "3", "4", "5", "6", "7", "8", "9">>
IsDigit(c) == c \in Range(Digits)
DigitValue(c) == (CHOOSE i \in DOMAIN Digits : Digits[i] = c) - 1

RECURSIVE DecimalValue(_, _)
DecimalValue(s, acc) ==
  IF s = <<>> THEN acc ELSE DecimalValue(Tail(s), 10 * acc + DigitValue(Head(s)))

\* Number(value) as z.coerce.number() applies it; nan marks NaN.  Only
\* unsigned decimal integers are written in the modelled inputs.
RECURSIVE ToNumber(_)
ToNumber(v) ==
  CASE v.t = "number" -> [nan |-> FALSE, n |-> v.n]
    [] v.t = "boolean" -> [nan |-> FALSE, n |-> IF v.b THEN 1 ELSE 0]
    [] v.t = "string" ->
         IF Trim(v.s) = <<>> THEN [nan |-> FALSE, n |-> 0]
         ELSE IF \A i \in DOMAIN Trim(v.s) : IsDigit(Trim(v.s)[i])
              THEN [nan |-> FALSE, n |-> DecimalValue(Trim(v.s), 0)]
              ELSE [nan |-> TRUE, n |-> 0]
    [] v.t = "array" ->
         IF v.a = <<>> THEN [nan |-> FALSE, n |-> 0]
         ELSE IF Len(v.a) = 1 THEN ToNumber(Str(v.a[1]))
              ELSE [nan |-> TRUE, n |-> 0]
    [] OTHER -> [nan |-> TRUE, n |-> 0]

\* ------------------------------------------------------------------------
\* config.ts: the schema
\* ------------------------------------------------------------------------
LAUNCH == <<"launch">>
CONNECT == <<"connect">>

StringFields == {"cliPath", "projectPath", "wsEndpoint", "account", "ticket", "cwd"}
NumberFields == {"timeout", "port"}
BooleanFields == {"trustProject", "autoClose"}
FieldSet == {"mode", "args"} \cup StringFields \cup NumberFields \cup BooleanFields

Valid(v) == [ok |-> TRUE, v |-> v]
Invalid == [ok |-> FALSE, v |-> Undef]

argsSchemaKeepsEmpty(v) ==
  CASE v.t = "undefined" -> Valid(Undef)
    [] v.t = "string" ->
         IF ~Truthy(v) THEN Valid(Undef)
         ELSE Valid(Arr(TrimAndFilter(SplitWhitespace(v.s))))
    [] v.t = "array" -> Valid(Arr(TrimAndFilter(v.a)))
    [] OTHER -> Invalid

\* argsSchema: a string or a list of strings becomes the list of its
\* non-empty trimmed items, or undefined when that list is empty.
argsSchema(v) ==
  CASE v.t = "undefined" -> Valid(Undef)
    [] v.t = "string" ->
         IF ~Truthy(v) THEN Valid(Undef)
         ELSE IF TrimAndFilter(SplitWhitespace(v.s)) = <<>> THEN Valid(Undef)
              ELSE Valid(Arr(TrimAndFilter(SplitWhitespace(v.s))))
    [] v.t = "array" ->
         IF TrimAndFilter(v.a) = <<>> THEN Valid(Undef)
         ELSE Valid(Arr(TrimAndFilter(v.a)))
    [] OTHER -> Invalid

\* z.enum(["launch", "connect"]).optional()
modeSchema(v) ==
  CASE v.t = "undefined" -> Valid(Undef)
    [] v.t = "string" -> IF v.s \in {LAUNCH, CONNECT} THEN Valid(v) ELSE Invalid
    [] OTHER -> Invalid

\* z.string().trim().min(1).optional()
stringSchema(v) ==
  CASE v.t = "undefined" -> Valid(Undef)
    [] v.t = "string" -> IF Trim(v.s) = <<>> THEN Invalid ELSE Valid(Str(Trim(v.s)))
    [] OTHER -> Invalid

\* z.coerce.number().int().positive().optional()
numberSchema(v) ==
  IF v.t = "undefined" THEN Valid(Undef)
  ELSE IF ToNumber(v).nan \/ ToNumber(v).n <= 0 THEN Invalid
       ELSE Valid(Num(ToNumber(v).n))

\* z.coerce.boolean().optional()
booleanSchema(v) ==
  IF v.t = "undefined" THEN Valid(Undef) ELSE Valid(Bool(Truthy(v)))

fieldSchema(key, v) ==
  CASE key = "mode" -> modeSchema(v)
    [] key = "args" -> argsSchema(v)
    [] key \in StringFields -> stringSchema(v)
    [] key \in NumberFields -> numberSchema(v)
    [] OTHER -> booleanSchema(v)

\* connectionOverridesSchema.parse(input): fails (ZodError) on an unknown
\* key or an invalid field; the output owns a key when the input owns it or
\* when its parsed value is not undefined.
connectionOverridesSchema(input) ==
  IF ~(DOMAIN input \subseteq FieldSet) \/
     \E k \in FieldSet : ~fieldSchema(k, Get(input, k)).ok
  THEN [ok |-> FALSE, v |-> EmptyObject]
  ELSE [ok |-> TRUE,
        v |-> [k \in {f \in FieldSet :
                        f \in DOMAIN input \/ fieldSchema(f, Get(input, f)).v # Undef}
                 |-> fieldSchema(k, Get(input, k)).v]]

\* ------------------------------------------------------------------------
\* config.ts: fromPrevious and resolveConfig
\* ------------------------------------------------------------------------
fromPreviousKeepsLaunchPathOnly(previous, key) ==
  CASE key = "mode" -> TRUE
    [] key = "projectPath" ->
         Truthy(previous[key]) /\ previous.mode = Str(LAUNCH)
    [] key \in StringFields -> Truthy(previous[key])
    [] key \in NumberFields -> previous[key].t = "number"
    [] key \in BooleanFields -> previous[key].t = "boolean"
    [] OTHER -> previous[key].t = "array" /\ Len(previous[key].a) # 0

\* Lines 59-72: which fields of the previous config fromPrevious copies.
fromPreviousKeeps(previous, key) ==
  CASE key = "mode" -> TRUE
    [] key \in StringFields -> Truthy(previous[key])
    [] key \in NumberFields -> previous[key].t = "number"
    [] key \in BooleanFields -> previous[key].t = "boolean"
    [] OTHER -> previous[key].t = "array" /\ Len(previous[key].a) # 0

fromPrevious(previous) ==
  IF previous = Undef THEN EmptyObject
  ELSE [k \in {f \in FieldSet : fromPreviousKeeps(previous, f)} |-> previous[k]]

\* The object literal resolveConfig builds from process.env: it owns every
\* key it lists (projectPath is not one of them), set or not.
envObject(env) ==
  [mode |-> Get(env, "WEAPP_AUTOMATOR_MODE"),
   cliPath |-> Get(env, "WECHAT_DEVTOOLS_CLI_PATH"),
   wsEndpoint |-> Get(env, "WEAPP_WS_ENDPOINT"),
   timeout |-> Get(env, "WEAPP_DEVTOOLS_TIMEOUT"),
   port |-> Get(env, "WEAPP_DEVTOOLS_PORT"),
   account |-> Get(env, "WEAPP_AUTO_ACCOUNT"),
   ticket |-> Get(env, "WEAPP_DEVTOOLS_TICKET"),
   trustProject |-> Get(env, "WEAPP_TRUST_PROJECT"),
   args |-> Get(env, "WEAPP_DEVTOOLS_ARGS"),
   cwd |-> Get(env, "WEAPP_DEVTOOLS_CWD"),
   autoClose |-> Get(env, "WEAPP_AUTOCLOSE")]

WsEndpointRequired ==
  <<"WeChat DevTools websocket endpoint is required. Provide connection.",
    "wsEndpoint", ".">>
ProjectPathRequired ==
  <<"Mini Program project path is required. Provide connection.",
    "projectPath", ".">>

Thrown(kind, message) == [ok |-> FALSE, error |-> kind, message |-> message]
Returned(config) == [ok |-> TRUE, config |-> config]

mergeLayersEnvLast(base, envInput, overrideConfig) ==
  Spread(Spread(base, overrideConfig), envInput)

\* Lines 100-104: { ...base, ...envInput, ...overrideConfig }
mergeLayers(base, envInput, overrideConfig) ==
  Spread(Spread(base, envInput), overrideConfig)

inferModePreviousFirst(merged, previous) ==
  IF Get(merged, "mode") # Undef THEN Get(merged, "mode")
  ELSE IF previous # Undef THEN previous.mode
       ELSE IF Truthy(Get(merged, "wsEndpoint")) THEN Str(CONNECT) ELSE Str(LAUNCH)

inferModeEndpointFirst(merged, previous) ==
  IF Truthy(Get(merged, "wsEndpoint")) THEN Str(CONNECT)
  ELSE IF Get(merged, "mode") # Undef THEN Get(merged, "mode")
       ELSE IF previous # Undef THEN previous.mode ELSE Str(LAUNCH)

\* Lines 106-108: merged.mode ?? (merged.wsEndpoint ? "connect"
\*                                : previous?.mode ?? "launch")
inferMode(merged, previous) ==
  IF Get(merged, "mode") # Undef THEN Get(merged, "mode")
  ELSE IF Truthy(Get(merged, "wsEndpoint")) THEN Str(CONNECT)
       ELSE IF previous # Undef THEN previous.mode ELSE Str(LAUNCH)

buildConfig(merged, previous) ==
  [k \in FieldSet |->
     IF k = "mode" THEN inferMode(merged, previous) ELSE Get(merged, k)]

validateConfigLaunchOnly(config) ==
  IF config.mode # Str(CONNECT) /\ ~Truthy(config.projectPath)
  THEN Thrown("ConfigError", ProjectPathRequired)
  ELSE Returned(config)

\* Lines 125-137: the mandatory field of the mode.
validateConfig(config) ==
  IF config.mode = Str(CONNECT)
  THEN IF ~Truthy(config.wsEndpoint)
       THEN Thrown("ConfigError", WsEndpointRequired)
       ELSE Returned(config)
  ELSE IF ~Truthy(config.projectPath)
       THEN Thrown("ConfigError", ProjectPathRequired)
       ELSE Returned(config)

resolveConfig(overrides, previous, env) ==
  IF ~connectionOverridesSchema(envObject(env)).ok
  THEN Thrown("ZodError", <<"env">>)
  ELSE IF overrides # Undef /\ ~connectionOverridesSchema(overrides).ok
  THEN Thrown("ZodError", <<"overrides">>)
  ELSE validateConfig(
         buildConfig(
           mergeLayers(fromPrevious(previous),
                       connectionOverridesSchema(envObject(env)).v,
                       IF overrides # Undef
                       THEN connectionOverridesSchema(overrides).v
                       ELSE EmptyObject),
           previous))

\* ------------------------------------------------------------------------
\* weappClient.ts: pure helpers
\* ------------------------------------------------------------------------
areArgsEqualByReference(a, b) == ~Truthy(a) /\ ~Truthy(b)

areArgsEqualAsSets(a, b) ==
  IF ~Truthy(a) /\ ~Truthy(b) THEN TRUE
  ELSE IF ~Truthy(a) \/ ~Truthy(b) THEN FALSE
  ELSE Range(a.a) = Range(b.a)

\* areArgsEqual(a?, b?); !a is true of undefined only (an array is truthy).
areArgsEqual(a, b) ==
  IF ~Truthy(a) /\ ~Truthy(b) THEN TRUE
  ELSE IF ~Truthy(a) \/ ~Truthy(b) THEN FALSE
  ELSE IF Len(a.a) # Len(b.a) THEN FALSE
  ELSE \A index \in DOMAIN a.a : a.a[index] = b.a[index]

ScalarFields == FieldSet \ {"args"}

isSameConfig(a, b) ==
  /\ \A k \in ScalarFields : a[k] = b[k]
  /\ areArgsEqual(a.args, b.args)

\* String(value) for the values the model writes.
JsString(v) ==
  CASE v.t = "string" -> v.s
    [] v.t = "undefined" -> <<"undefined">>
    [] v.t = "boolean" -> IF v.b THEN <<"true">> ELSE <<"false">>
    [] v.t = "object" -> <<"[object Object]">>
    [] v.t = "error" -> <<"Error: ">> \o v.message
    [] OTHER -> <<"?">>

\* error instanceof Error ? error.message : String(error)
ErrorMessage(error) == IF error.t = "error" THEN error.message ELSE JsString(error)

\* toSerializable(value): scalars pass, arrays and objects are rebuilt
\* member by member, anything else becomes its String().
RECURSIVE toSerializable(_)
toSerializable(value) ==
  CASE value.t \in {"undefined", "string", "number", "boolean"} -> value
    [] value.t = "array" -> value
    [] value.t = "object" ->
         Obj([k \in DOMAIN value.o |-> toSerializable(value.o[k])])
    [] OTHER -> Str(JsString(value))

\* (event as any)?.key
Prop(event, key) == IF event.t = "object" THEN Get(event.o, key) ELSE Undef

consoleEntry(event, now) ==
  [type |-> IF Prop(event, "type").t = "string" THEN Prop(event, "type").s ELSE <<"log">>,
   message |-> IF Prop(event, "text").t = "string" THEN Prop(event, "text").s
               ELSE JsString(toSerializable(event)),
   timestamp |-> now,
   data |-> toSerializable(event)]

exceptionEntry(event, now) ==
  [type |-> <<"exception">>,
   message |-> IF Prop(event, "message").t = "string" THEN Prop(event, "message").s
               ELSE JsString(toSerializable(event)),
   timestamp |-> now,
   data |-> toSerializable(event)]

maxLogs == 1000

pushLogUnbounded(logs, logEntry) == Append(logs, logEntry)

pushLogDropsNewest(logs, logEntry) ==
  IF Len(Append(logs, logEntry)) > maxLogs THEN logs ELSE Append(logs, logEntry)

\* this.consoleLogs.push(logEntry); if (length > maxLogs) shift()
pushLog(logs, logEntry) ==
  IF Len(Append(logs, logEntry)) > maxLogs
  THEN Tail(Append(logs, logEntry))
  ELSE Append(logs, logEntry)

connectFailureMessageSwapped(config, error) ==
  <<"Failed to ", IF config.mode = Str(LAUNCH) THEN "connect to" ELSE "launch",
    " WeChat DevTools: ">> \o ErrorMessage(error)

\* `Failed to ${mode === "connect" ? "connect to" : "launch"} WeChat DevTools: ${message}`
connectFailureMessage(config, error) ==
  <<"Failed to ", IF config.mode = Str(CONNECT) THEN "connect to" ELSE "launch",
    " WeChat DevTools: ">> \o ErrorMessage(error)

PageStackEmpty ==
  <<"Mini Program page stack is empty. Ensure the project window is open.">>

UserError(message) == [t |-> "error", name |-> "UserError", message |-> message]
ZodError == [t |-> "error", name |-> "ZodError", message |-> <<"invalid input">>]

NoResult == [kind |-> "none"]
Return(v) == [kind |-> "return", value |-> v]
Raise(e) == [kind |-> "raise", error |-> e]

\* ------------------------------------------------------------------------
\* State
\* ------------------------------------------------------------------------
VARIABLES
  miniProgram,   \* this.miniProgram: a handle number, NoHandle for undefined
  config,        \* this.config: a resolved config, Undef for undefined
  consoleLogs,   \* this.consoleLogs
  env,           \* process.env
  handles,       \* the handles automator has returned, by handle number
  clock,         \* Date.now(), counted in observed events
  pc,            \* where each caller's asynchronous call is suspended
  frame,         \* the locals of each caller's call
  last,          \* summary of the last finished withMiniProgram/withPage call
  started,       \* number of calls started so far
  arrived,       \* the entries appended since the last clearConsoleLogs
  copies         \* the arrays getConsoleLogs has returned to its callers

vars == <<miniProgram, config, consoleLogs, env, handles, clock, pc, frame,
          last, started, arrived, copies>>

NoHandle == 0
Procs == {1, 2}

\* The locals of a call (op .. closing, activeProgram, result) and what the
\* call has done so far: before is the manager as the call found it,
\* resolved the outcome of resolveConfig, handlerConfig and invoked the
\* arguments and the number of invocations of the caller's operation,
\* connects the number of connect/launch invocations, teardowns the number
\* of close()/disconnect() invocations on a handle, warns the number of
\* log.warn calls, failed the handle whose teardown failed, connectError
\* the value connect/launch failed with, opened the handle it returned,
\* page what currentPage() settled with, pageArg the page the operation of
\* withPage was invoked with, outcome what the caller's operation settled
\* with.
NoSession == [miniProgram |-> NoHandle, config |-> Undef, handles |-> <<>>]

IdleFrame ==
  [op |-> "none", overrides |-> Undef, reconnect |-> FALSE, env |-> EmptyObject,
   before |-> NoSession, resolved |-> NoResult,
   config |-> Undef, site |-> "none", closing |-> NoHandle,
   activeProgram |-> NoHandle, handlerConfig |-> Undef, invoked |-> 0,
   connects |-> 0, teardowns |-> 0, warns |-> 0, failed |-> NoHandle,
   connectError |-> Undef, opened |-> NoHandle, result |-> NoResult,
   page |-> NoResult, pageArg |-> NoResult, outcome |-> NoResult]

NoLast == [op |-> "none"]

NewHandle(mode) ==
  [mode |-> mode, status |-> "open", listeners |-> FALSE,
   closeCalls |-> 0, disconnectCalls |-> 0, emitted |-> 0]

manager == <<miniProgram, config, handles>>
logging == <<consoleLogs, clock, arrived, copies>>

Goto(p, label, fr) ==
  /\ pc' = [pc EXCEPT ![p] = label]
  /\ frame' = [frame EXCEPT ![p] = fr]

InitWith(environments, now) ==
  /\ miniProgram = NoHandle
  /\ config = Undef
  /\ consoleLogs = <<>>
  /\ env \in environments
  /\ handles = <<>>
  /\ clock = now
  /\ pc = [p \in Procs |-> "idle"]
  /\ frame = [p \in Procs |-> IdleFrame]
  /\ last = NoLast
  /\ started = 0
  /\ arrived = <<>>
  /\ copies = <<>>

\* ------------------------------------------------------------------------
\* WeappAutomatorManager.close, cut at its await
\* ------------------------------------------------------------------------
\* Lines 140-141, the finally block of close(): it runs whether the close
\* attempt succeeded or not.
ClearOnCloseHandleOnly(closeOk) ==
  /\ miniProgram' = NoHandle
  /\ config' = config

ClearOnCloseNothing(closeOk) ==
  UNCHANGED <<miniProgram, config>>

ClearOnCloseIfOk(closeOk) ==
  IF closeOk
  THEN miniProgram' = NoHandle /\ config' = Undef
  ELSE UNCHANGED <<miniProgram, config>>

ClearOnClose(closeOk) ==
  /\ miniProgram' = NoHandle
  /\ config' = Undef

CloseEnterByResolvedMode(p, fr, site, disconnectOk) ==
  IF miniProgram = NoHandle
  THEN /\ Goto(p, "closeReturned", [fr EXCEPT !.site = site])
       /\ UNCHANGED manager
  ELSE IF fr.config # Undef /\ fr.config.mode = Str(LAUNCH)
  THEN /\ handles' = [handles EXCEPT ![miniProgram].closeCalls = @ + 1]
       /\ Goto(p, "closeAwait",
               [fr EXCEPT !.site = site, !.closing = miniProgram,
                          !.teardowns = @ + 1])
       /\ UNCHANGED <<miniProgram, config>>
  ELSE /\ handles' = [handles EXCEPT ![miniProgram] =
                        [@ EXCEPT !.disconnectCalls = @ + 1,
                                  !.status = IF disconnectOk THEN "detached" ELSE @,
                                  !.listeners = FALSE]]
       /\ ClearOnClose(disconnectOk)
       /\ Goto(p, "closeReturned",
               [fr EXCEPT !.site = site, !.teardowns = @ + 1,
                          !.failed = IF disconnectOk THEN @ ELSE miniProgram,
                          !.warns = IF disconnectOk \/ fr.op = "close"
                                    THEN @ ELSE @ + 1])

\* close() up to its first suspension, called from `site` by caller p whose
\* frame is fr.  A launch session awaits miniProgram.close(); any other
\* session is detached by the synchronous disconnect(), which succeeds iff
\* disconnectOk, and the finally block then runs at once.
CloseEnter(p, fr, site, disconnectOk) ==
  IF miniProgram = NoHandle
  THEN /\ Goto(p, "closeReturned", [fr EXCEPT !.site = site])
       /\ UNCHANGED manager
  ELSE IF config # Undef /\ config.mode = Str(LAUNCH)
  THEN /\ handles' = [handles EXCEPT ![miniProgram].closeCalls = @ + 1]
       /\ Goto(p, "closeAwait",
               [fr EXCEPT !.site = site, !.closing = miniProgram,
                          !.teardowns = @ + 1])
       /\ UNCHANGED <<miniProgram, config>>
  ELSE /\ handles' = [handles EXCEPT ![miniProgram] =
                        [@ EXCEPT !.disconnectCalls = @ + 1,
                                  !.status = IF disconnectOk THEN "detached" ELSE @,
                                  !.listeners = FALSE]]
       /\ ClearOnClose(disconnectOk)
       /\ Goto(p, "closeReturned",
               [fr EXCEPT !.site = site, !.teardowns = @ + 1,
                          !.failed = IF disconnectOk THEN @ ELSE miniProgram,
                          !.warns = IF disconnectOk \/ fr.op = "close"
                                    THEN @ ELSE @ + 1])

TypeErrorUndefined ==
  [t |-> "error", name |-> "TypeError",
   message |-> <<"Cannot read properties of undefined">>]

CloseSettlesKeepsListeners(p, closeOk) ==
  /\ pc[p] = "closeAwait"
  /\ LET fr == [frame[p] EXCEPT !.closing = NoHandle,
                                !.failed = IF closeOk THEN @ ELSE frame[p].closing,
                                !.warns = IF closeOk \/ frame[p].op = "close"
                                          THEN @ ELSE @ + 1]
         settled == [handles EXCEPT ![frame[p].closing].status =
                                      IF closeOk THEN "closed" ELSE @]
     IN IF miniProgram = NoHandle
        THEN /\ handles' = settled
             /\ Goto(p, "done", [fr EXCEPT !.result = Raise(TypeErrorUndefined)])
             /\ UNCHANGED <<miniProgram, config>>
        ELSE /\ handles' = settled
             /\ ClearOnClose(closeOk)
             /\ Goto(p, "closeReturned", fr)
  /\ UNCHANGED <<env, last, started>>
  /\ UNCHANGED logging

\* await this.miniProgram.close() settles; the catch logs a warning when a
\* logger was passed; the finally block reads this.miniProgram again.
CloseSettles(p, closeOk) ==
  /\ pc[p] = "closeAwait"
  /\ LET fr == [frame[p] EXCEPT !.closing = NoHandle,
                                !.failed = IF closeOk THEN @ ELSE frame[p].closing,
                                !.warns = IF closeOk \/ frame[p].op = "close"
                                          THEN @ ELSE @ + 1]
         settled == [handles EXCEPT ![frame[p].closing].status =
                                      IF closeOk THEN "closed" ELSE @]
     IN IF miniProgram = NoHandle
        THEN /\ handles' = settled
             /\ Goto(p, "done", [fr EXCEPT !.result = Raise(TypeErrorUndefined)])
             /\ UNCHANGED <<miniProgram, config>>
        ELSE /\ handles' = [settled EXCEPT ![miniProgram].listeners = FALSE]
             /\ ClearOnClose(closeOk)
             /\ Goto(p, "closeReturned", fr)
  /\ UNCHANGED <<env, last, started>>
  /\ UNCHANGED logging

\* ------------------------------------------------------------------------
\* WeappAutomatorManager.withMiniProgram / withPage, cut at their awaits
\* ------------------------------------------------------------------------
\* const activeProgram = this.miniProgram!; handler(activeProgram, config).
\* The handler of withPage is its wrapper, which first awaits currentPage().
InvokeHandler(p, fr, activeProgram) ==
  Goto(p, IF fr.op = "withPage" THEN "pageAwait" ELSE "handlerAwait",
       [fr EXCEPT !.activeProgram = activeProgram,
                  !.handlerConfig = fr.config,
                  !.invoked = IF fr.op = "withPage" THEN @ ELSE @ + 1])

canReuseAnyConfig(resolved) == miniProgram # NoHandle /\ config # Undef

\* Lines 67-68: this.miniProgram && this.config && isSameConfig(...)
canReuse(resolved) ==
  miniProgram # NoHandle /\ config # Undef /\ isSameConfig(config, resolved)

DecideWithoutClose(p, fr, disconnectOk) ==
  IF canReuse(fr.config)
  THEN InvokeHandler(p, fr, miniProgram) /\ UNCHANGED manager
  ELSE /\ Goto(p, "connectAwait", [fr EXCEPT !.site = "stale", !.connects = @ + 1])
       /\ UNCHANGED manager

\* Lines 67-70: the reuse decision and, when the session cannot be reused,
\* the call of close().
Decide(p, fr, disconnectOk) ==
  IF canReuse(fr.config)
  THEN InvokeHandler(p, fr, miniProgram) /\ UNCHANGED manager
  ELSE CloseEnter(p, fr, "stale", disconnectOk)

CallWithIgnoresReconnect(p, op, overrides, reconnect, disconnectOk, maxCalls) ==
  /\ pc[p] = "idle"
  /\ started < maxCalls
  /\ started' = started + 1
  /\ LET r == resolveConfig(overrides, config, env)
         fr == [IdleFrame EXCEPT !.op = op, !.overrides = overrides,
                                 !.reconnect = reconnect, !.env = env,
                                 !.resolved = r,
                                 !.before = [miniProgram |-> miniProgram,
                                             config |-> config,
                                             handles |-> handles]]
     IN IF ~r.ok
        THEN /\ Goto(p, "done",
                     [fr EXCEPT !.result =
                        Raise(IF r.error = "ConfigError"
                              THEN UserError(r.message) ELSE ZodError)])
             /\ UNCHANGED manager
        ELSE Decide(p, [fr EXCEPT !.config = r.config], disconnectOk)
  /\ UNCHANGED <<env, last>>
  /\ UNCHANGED logging

CallWithClearsOnConfigError(p, op, overrides, reconnect, disconnectOk, maxCalls) ==
  /\ pc[p] = "idle"
  /\ started < maxCalls
  /\ started' = started + 1
  /\ LET r == resolveConfig(overrides, config, env)
         fr == [IdleFrame EXCEPT !.op = op, !.overrides = overrides,
                                 !.reconnect = reconnect, !.env = env,
                                 !.resolved = r,
                                 !.before = [miniProgram |-> miniProgram,
                                             config |-> config,
                                             handles |-> handles]]
     IN IF ~r.ok
        THEN /\ Goto(p, "done",
                     [fr EXCEPT !.result =
                        Raise(IF r.error = "ConfigError"
                              THEN UserError(r.message) ELSE ZodError)])
             /\ miniProgram' = NoHandle
             /\ config' = Undef
             /\ UNCHANGED handles
        ELSE IF reconnect
             THEN CloseEnter(p, [fr EXCEPT !.config = r.config], "reconnect",
                             disconnectOk)
             ELSE Decide(p, [fr EXCEPT !.config = r.config], disconnectOk)
  /\ UNCHANGED <<env, last>>
  /\ UNCHANGED logging

\* Lines 52-65: resolve the config, then close() when reconnect is asked.
CallWith(p, op, overrides, reconnect, disconnectOk, maxCalls) ==
  /\ pc[p] = "idle"
  /\ started < maxCalls
  /\ started' = started + 1
  /\ LET r == resolveConfig(overrides, config, env)
         fr == [IdleFrame EXCEPT !.op = op, !.overrides = overrides,
                                 !.reconnect = reconnect, !.env = env,
                                 !.resolved = r,
                                 !.before = [miniProgram |-> miniProgram,
                                             config |-> config,
                                             handles |-> handles]]
     IN IF ~r.ok
        THEN /\ Goto(p, "done",
                     [fr EXCEPT !.result =
                        Raise(IF r.error = "ConfigError"
                              THEN UserError(r.message) ELSE ZodError)])
             /\ UNCHANGED manager
        ELSE IF reconnect
             THEN CloseEnter(p, [fr EXCEPT !.config = r.config], "reconnect",
                             disconnectOk)
             ELSE Decide(p, [fr EXCEPT !.config = r.config], disconnectOk)
  /\ UNCHANGED <<env, last>>
  /\ UNCHANGED logging

CallWithMiniProgram(p, overrides, reconnect, disconnectOk, maxCalls) ==
  CallWith(p, "withMiniProgram", overrides, reconnect, disconnectOk, maxCalls)

CallWithPage(p, overrides, reconnect, disconnectOk, maxCalls) ==
  CallWith(p, "withPage", overrides, reconnect, disconnectOk, maxCalls)

\* manager.close() as the server's disconnect handler calls it (no logger).
CallClose(p, disconnectOk, maxCalls) ==
  /\ pc[p] = "idle"
  /\ started < maxCalls
  /\ started' = started + 1
  /\ CloseEnter(p, [IdleFrame EXCEPT !.op = "close",
                                     !.before = [miniProgram |-> miniProgram,
                                                 config |-> config,
                                                 handles |-> handles]],
                "explicit", disconnectOk)
  /\ UNCHANGED <<env, last>>
  /\ UNCHANGED logging

\* The await of close() resumes in whoever called it.
CloseReturns(p, disconnectOk) ==
  /\ pc[p] = "closeReturned"
  /\ LET fr == frame[p]
     IN CASE fr.site = "reconnect" -> Decide(p, fr, disconnectOk)
          [] fr.site = "stale" ->
               /\ Goto(p, "connectAwait", [fr EXCEPT !.connects = @ + 1])
               /\ UNCHANGED manager
          [] fr.site = "auto" ->
               /\ Goto(p, "done", fr)
               /\ UNCHANGED manager
          [] OTHER ->
               /\ Goto(p, "done", [fr EXCEPT !.result = Return(Undef)])
               /\ UNCHANGED manager
  /\ UNCHANGED <<env, last, started>>
  /\ UNCHANGED logging

HandleMode(resolved) == IF resolved.mode = Str(CONNECT) THEN "connect" ELSE "launch"

ConnectSucceedsConfigIfAbsent(p) ==
  /\ pc[p] = "connectAwait"
  /\ handles' = Append(handles,
                       [NewHandle(HandleMode(frame[p].config)) EXCEPT
                          !.listeners = TRUE])
  /\ miniProgram' = Len(handles) + 1
  /\ config' = IF config = Undef THEN frame[p].config ELSE config
  /\ InvokeHandler(p, [frame[p] EXCEPT !.opened = Len(handles) + 1],
                   Len(handles) + 1)
  /\ UNCHANGED <<env, last, started>>
  /\ UNCHANGED logging

ConnectSucceedsResetsLogs(p) ==
  /\ pc[p] = "connectAwait"
  /\ handles' = Append(handles,
                       [NewHandle(HandleMode(frame[p].config)) EXCEPT
                          !.listeners = TRUE])
  /\ miniProgram' = Len(handles) + 1
  /\ config' = frame[p].config
  /\ InvokeHandler(p, [frame[p] EXCEPT !.opened = Len(handles) + 1],
                   Len(handles) + 1)
  /\ consoleLogs' = <<>>
  /\ UNCHANGED <<env, last, started, clock, arrived, copies>>

\* Lines 77-80: this.connect(config) resolves with a new handle.
ConnectSucceeds(p) ==
  /\ pc[p] = "connectAwait"
  /\ handles' = Append(handles,
                       [NewHandle(HandleMode(frame[p].config)) EXCEPT
                          !.listeners = TRUE])
  /\ miniProgram' = Len(handles) + 1
  /\ config' = frame[p].config
  /\ InvokeHandler(p, [frame[p] EXCEPT !.opened = Len(handles) + 1],
                   Len(handles) + 1)
  /\ UNCHANGED <<env, last, started>>
  /\ UNCHANGED logging

\* Lines 81-90: this.connect(config) throws or rejects with `error`.
ConnectFails(p, error) ==
  /\ pc[p] = "connectAwait"
  /\ miniProgram' = NoHandle
  /\ config' = Undef
  /\ Goto(p, "done",
          [frame[p] EXCEPT !.connectError = error, !.result =
             Raise(UserError(connectFailureMessage(frame[p].config, error)))])
  /\ UNCHANGED <<handles, env, last, started>>
  /\ UNCHANGED logging

AfterHandlerOnSuccessOnly(p, fr, disconnectOk) ==
  IF Truthy(fr.config.autoClose) /\ fr.result.kind = "return"
  THEN CloseEnter(p, fr, "auto", disconnectOk)
  ELSE Goto(p, "done", fr) /\ UNCHANGED manager

AfterHandlerMasksResult(p, fr, disconnectOk) ==
  IF Truthy(fr.config.autoClose)
  THEN CloseEnter(p, [fr EXCEPT !.result = Return(Undef)], "auto", disconnectOk)
  ELSE Goto(p, "done", fr) /\ UNCHANGED manager

AfterHandlerClosesOnRaise(p, fr, disconnectOk) ==
  IF Truthy(fr.config.autoClose) \/ fr.result.kind = "raise"
  THEN CloseEnter(p, fr, "auto", disconnectOk)
  ELSE Goto(p, "done", fr) /\ UNCHANGED manager

\* Lines 96-100: the finally block of withMiniProgram.
AfterHandler(p, fr, disconnectOk) ==
  IF Truthy(fr.config.autoClose)
  THEN CloseEnter(p, fr, "auto", disconnectOk)
  ELSE Goto(p, "done", fr) /\ UNCHANGED manager

PageSettlesUnchecked(p, page, disconnectOk) ==
  /\ pc[p] = "pageAwait"
  /\ Goto(p, "handlerAwait",
          [frame[p] EXCEPT !.invoked = @ + 1, !.page = page, !.pageArg = page])
  /\ UNCHANGED manager
  /\ UNCHANGED <<env, last, started>>
  /\ UNCHANGED logging

\* withPage lines 113-119: currentPage() settles with a page, with nothing,
\* or with an error.
PageSettles(p, page, disconnectOk) ==
  /\ pc[p] = "pageAwait"
  /\ IF page.t = "object"
     THEN /\ Goto(p, "handlerAwait",
                  [frame[p] EXCEPT !.invoked = @ + 1, !.page = page,
                                   !.pageArg = page])
          /\ UNCHANGED manager
     ELSE AfterHandler(p,
            [frame[p] EXCEPT !.page = page, !.result =
               IF page.t = "error" THEN Raise(page)
               ELSE Raise(UserError(PageStackEmpty))],
            disconnectOk)
  /\ UNCHANGED <<env, last, started>>
  /\ UNCHANGED logging

\* Line 95: the caller's operation returns or raises.
HandlerSettles(p, outcome, disconnectOk) ==
  /\ pc[p] = "handlerAwait"
  /\ AfterHandler(p, [frame[p] EXCEPT !.result = outcome, !.outcome = outcome],
                  disconnectOk)
  /\ UNCHANGED <<env, last, started>>
  /\ UNCHANGED logging

\* The caller receives the result of its call.
Finish(p) ==
  /\ pc[p] = "done"
  /\ pc' = [pc EXCEPT ![p] = "idle"]
  /\ frame' = [frame EXCEPT ![p] = IdleFrame]
  /\ last' = [op |-> frame[p].op,
               overrides |-> frame[p].overrides,
               env |-> frame[p].env,
               config |-> frame[p].config,
               connects |-> frame[p].connects,
               teardowns |-> frame[p].teardowns,
               failed |-> frame[p].failed,
               opened |-> frame[p].opened,
               result |-> frame[p].result]
  /\ UNCHANGED <<env, started>>
  /\ UNCHANGED manager
  /\ UNCHANGED logging

\* ------------------------------------------------------------------------
\* Log capture
\* ------------------------------------------------------------------------
\* A returned array is a record: items are its elements, shared tells
\* whether it is the very array this.consoleLogs refers to.  InPlace(logs)
\* is what the returned arrays hold after this.consoleLogs was changed in
\* place (push, shift) to logs.
InPlace(logs) ==
  [i \in DOMAIN copies |->
     IF copies[i].shared THEN [copies[i] EXCEPT !.items = logs] ELSE copies[i]]

\* The listener attachLogging registers for "console" runs on handle h.
ConsoleEvent(h, event, maxClock) ==
  /\ h \in DOMAIN handles
  /\ handles[h].listeners
  /\ clock < maxClock
  /\ clock' = clock + 1
  /\ consoleLogs' = pushLog(consoleLogs, consoleEntry(event, clock + 1))
  /\ copies' = InPlace(consoleLogs')
  /\ arrived' = Append(arrived, consoleEntry(event, clock + 1))
  /\ handles' = [handles EXCEPT ![h].emitted = @ + 1]
  /\ UNCHANGED <<miniProgram, config, env, pc, frame, last, started>>

\* The listener attachLogging registers for "exception" runs on handle h.
ExceptionEvent(h, event, maxClock) ==
  /\ h \in DOMAIN handles
  /\ handles[h].listeners
  /\ clock < maxClock
  /\ clock' = clock + 1
  /\ consoleLogs' = pushLog(consoleLogs, exceptionEntry(event, clock + 1))
  /\ copies' = InPlace(consoleLogs')
  /\ arrived' = Append(arrived, exceptionEntry(event, clock + 1))
  /\ handles' = [handles EXCEPT ![h].emitted = @ + 1]
  /\ UNCHANGED <<miniProgram, config, env, pc, frame, last, started>>

\* this.consoleLogs = []: the field refers to a new array, the array it
\* referred to keeps its elements.
Unshared == [i \in DOMAIN copies |-> [copies[i] EXCEPT !.shared = FALSE]]

ClearConsoleLogs ==
  /\ consoleLogs' = <<>>
  /\ arrived' = <<>>
  /\ copies' = Unshared
  /\ UNCHANGED <<clock, env, pc, frame, last, started>>
  /\ UNCHANGED manager

getConsoleLogsNoCopy == [shared |-> TRUE, items |-> consoleLogs]

\* Lines 36-38: return [...this.consoleLogs], a new array.
getConsoleLogs == [shared |-> FALSE, items |-> consoleLogs]

\* A caller takes the logs and keeps the array.
GetConsoleLogs(maxCopies) ==
  /\ Len(copies) < maxCopies
  /\ copies' = Append(copies, getConsoleLogs)
  /\ UNCHANGED <<consoleLogs, clock, arrived, env, pc, frame, last, started>>
  /\ UNCHANGED manager

\* A caller removes the last element of the i-th array it was given; when
\* that array is the manager's own, the buffer loses the element too.
MutateCopy(i) ==
  /\ i \in DOMAIN copies
  /\ copies[i].items # <<>>
  /\ LET items == SubSeq(copies[i].items, 1, Len(copies[i].items) - 1)
     IN /\ copies' = [j \in DOMAIN copies |->
                        IF j = i \/ (copies[i].shared /\ copies[j].shared)
                        THEN [copies[j] EXCEPT !.items = items] ELSE copies[j]]
        /\ consoleLogs' = IF copies[i].shared THEN items ELSE consoleLogs
  /\ UNCHANGED <<clock, arrived, env, pc, frame, last, started>>
  /\ UNCHANGED manager

\* The response of mp_getLogs: the count and every entry rebuilt from its
\* four fields.
logsResponse(logs) ==
  [count |-> Len(logs),
   logs |-> [i \in DOMAIN logs |->
               [type |-> logs[i].type, message |-> logs[i].message,
                timestamp |-> logs[i].timestamp, data |-> logs[i].data]]]

GetLogsToolClearsFirst(clear) ==
  /\ consoleLogs' = IF clear THEN <<>> ELSE consoleLogs
  /\ arrived' = IF clear THEN <<>> ELSE arrived
  /\ copies' = IF clear THEN Unshared ELSE copies
  /\ last' = [op |-> "mp_getLogs", clear |-> clear, before |-> consoleLogs,
               result |-> Return(logsResponse(consoleLogs'))]
  /\ UNCHANGED <<clock, env, pc, frame, started>>
  /\ UNCHANGED manager

\* The mp_getLogs tool: getConsoleLogs(), then clearConsoleLogs() when
\* args.clear, with no suspension in between; the array it took is dropped
\* once the response is built.
GetLogsTool(clear) ==
  /\ consoleLogs' = IF clear THEN <<>> ELSE consoleLogs
  /\ arrived' = IF clear THEN <<>> ELSE arrived
  /\ copies' = IF clear THEN Unshared ELSE copies
  /\ last' = [op |-> "mp_getLogs", clear |-> clear, before |-> consoleLogs,
               result |-> Return(logsResponse(getConsoleLogs.items))]
  /\ UNCHANGED <<clock, env, pc, frame, started>>
  /\ UNCHANGED manager

\* The process environment changes between two calls.
SetEnv(e) ==
  /\ e # env
  /\ env' = e
  /\ UNCHANGED <<pc, frame, last, started>>
  /\ UNCHANGED manager
  /\ UNCHANGED logging

\* ------------------------------------------------------------------------
\* Inputs
\* ------------------------------------------------------------------------
PathP == <<"/p">>
PathQ == <<"/q">>
WsX == <<"ws://x">>

MaxCalls == 3

\* Overrides of the lifecycle specification: none, the two ways of opening
\* a session (one written with surrounding white space), auto-close, a
\* mode with its mandatory field missing, and a schema violation.
SpecOverrides ==
  {Undef,
   [projectPath |-> Str(PathP)],
   [projectPath |-> Str(<<" ", "/p", " ">>), autoClose |-> Bool(TRUE)],
   [wsEndpoint |-> Str(WsX)],
   [mode |-> Str(CONNECT)],
   [mode |-> Str(LAUNCH)],
   [projectPath |-> Str(PathQ), port |-> Num(0)],
   [projectPath |-> Num(5)]}

SpecEnvironments ==
  {EmptyObject,
   [WEAPP_AUTOCLOSE |-> Str(<<"true">>), WEAPP_WS_ENDPOINT |-> Str(WsX)]}

ConnectErrors == {ErrorObj(<<"ECONNREFUSED">>), Str(<<"timeout">>)}
HandlerOutcomes == {Return(Str(<<"ok">>)), Raise(UserError(<<"boom">>))}
Pages == {Obj([path |-> Str(<<"pages/index">>)]), Undef}
ConsoleEvents == {Obj([type |-> Str(<<"warn">>), text |-> Str(<<"w">>)]), Str(<<"plain">>)}
ExceptionEvents == {Obj([message |-> Str(<<"oops">>)])}

\* ------------------------------------------------------------------------
\* The lifecycle specification: one caller, calls made one after another
\* ------------------------------------------------------------------------
Init == InitWith(SpecEnvironments, 0)

Next ==
  \/ \E ov \in SpecOverrides, rc \in BOOLEAN, dok \in BOOLEAN :
       CallWithMiniProgram(1, ov, rc, dok, MaxCalls)
  \/ \E ov \in SpecOverrides, rc \in BOOLEAN, dok \in BOOLEAN :
       CallWithPage(1, ov, rc, dok, MaxCalls)
  \/ \E dok \in BOOLEAN : CallClose(1, dok, MaxCalls)
  \/ \E ok \in BOOLEAN : CloseSettles(1, ok)
  \/ \E dok \in BOOLEAN : CloseReturns(1, dok)
  \/ ConnectSucceeds(1)
  \/ \E e \in ConnectErrors : ConnectFails(1, e)
  \/ \E page \in Pages, dok \in BOOLEAN : PageSettles(1, page, dok)
  \/ \E out \in HandlerOutcomes, dok \in BOOLEAN : HandlerSettles(1, out, dok)
  \/ Finish(1)

Spec == Init /\ [][Next]_vars

\* ------------------------------------------------------------------------
\* The log specification: the events of the handles and clearConsoleLogs,
\* interleaved with calls that open and tear down sessions.  It starts
\* either from the constructed manager or from a manager whose first call
\* opened a session that has since emitted LogPrefill events.
\* ------------------------------------------------------------------------
LogPrefill == 999
MaxEvents == 2
MaxLogCalls == 2

LogConsoleEvents == {Str(<<"plain">>)}
LogOverrides == {[projectPath |-> Str(PathP)], [wsEndpoint |-> Str(WsX)]}

PrefillEntry(i) ==
  IF i % 3 = 0 THEN exceptionEntry(Obj([message |-> Str(<<"oops">>)]), i)
  ELSE consoleEntry(Obj([type |-> Str(<<"info">>), text |-> Str(<<"tick">>)]), i)

InitLog ==
  \/ InitWith({EmptyObject}, LogPrefill)
  \/ /\ miniProgram = 1
     /\ config = resolveConfig([projectPath |-> Str(PathP)], Undef, EmptyObject).config
     /\ handles = <<[NewHandle("launch") EXCEPT !.listeners = TRUE,
                                                !.emitted = LogPrefill]>>
     /\ copies = <<>>
     /\ consoleLogs = [i \in 1..LogPrefill |-> PrefillEntry(i)]
     /\ arrived = [i \in 1..LogPrefill |-> PrefillEntry(i)]
     /\ clock = LogPrefill
     /\ env = EmptyObject
     /\ pc = [p \in Procs |-> "idle"]
     /\ frame = [p \in Procs |-> IdleFrame]
     /\ last = [op |-> "withMiniProgram",
                overrides |-> [projectPath |-> Str(PathP)],
                env |-> EmptyObject,
                config |-> config,
                connects |-> 1,
                teardowns |-> 0,
                failed |-> NoHandle,
                opened |-> 1,
                result |-> Return(Str(<<"ok">>))]
     /\ started = 0

NextLog ==
  \/ \E ov \in LogOverrides, dok \in BOOLEAN :
       CallWithMiniProgram(1, ov, FALSE, dok, MaxLogCalls)
  \/ \E dok \in BOOLEAN : CallClose(1, dok, MaxLogCalls)
  \/ \E ok \in BOOLEAN : CloseSettles(1, ok)
  \/ \E dok \in BOOLEAN : CloseReturns(1, dok)
  \/ ConnectSucceeds(1)
  \/ ConnectFails(1, Str(<<"timeout">>))
  \/ \E dok \in BOOLEAN : HandlerSettles(1, Return(Str(<<"ok">>)), dok)
  \/ Finish(1)
  \/ \E h \in DOMAIN handles, ev \in LogConsoleEvents :
       ConsoleEvent(h, ev, LogPrefill + MaxEvents)
  \/ \E h \in DOMAIN handles, ev \in ExceptionEvents :
       ExceptionEvent(h, ev, LogPrefill + MaxEvents)
  \/ ClearConsoleLogs

SpecLog == InitLog /\ [][NextLog]_vars

\* ------------------------------------------------------------------------
\* The reuse specification: consecutive withMiniProgram calls whose
\* overrides vary every field of the configuration, one field at a time,
\* on top of a project path; the environment may change between calls.
\* ------------------------------------------------------------------------
MaxReuseCalls == 2

ReuseExtras ==
  {EmptyObject,
   [mode |-> Str(LAUNCH)],
   [mode |-> Str(CONNECT), wsEndpoint |-> Str(WsX)],
   [cliPath |-> Str(<<"/cli">>)],
   [projectPath |-> Str(PathQ)],
   [wsEndpoint |-> Str(WsX)],
   [timeout |-> Num(5)],
   [port |-> Str(<<"4", "2">>)],
   [account |-> Str(<<"acct">>)],
   [ticket |-> Str(<<"tkt">>)],
   [trustProject |-> Bool(TRUE)],
   [cwd |-> Str(<<"/w">>)],
   [autoClose |-> Bool(TRUE)],
   [autoClose |-> Bool(FALSE)],
   [args |-> Arr(<<<<"a">>, <<"b">>>>)],
   [args |-> Arr(<<<<"b">>, <<"a">>>>)],
   [args |-> Arr(<<<<"a">>>>)],
   [args |-> Str(<<"a", " ", "b">>)]}

ReuseOverrides == {Spread([projectPath |-> Str(PathP)], x) : x \in ReuseExtras}

ReuseEnvironments == {EmptyObject, [WEAPP_DEVTOOLS_PORT |-> Str(<<"7">>)]}

InitReuse == InitWith(ReuseEnvironments, 0)

NextReuse ==
  \/ \E ov \in ReuseOverrides, rc \in BOOLEAN, dok \in BOOLEAN :
       CallWithMiniProgram(1, ov, rc, dok, MaxReuseCalls)
  \/ \E ok \in BOOLEAN : CloseSettles(1, ok)
  \/ \E dok \in BOOLEAN : CloseReturns(1, dok)
  \/ ConnectSucceeds(1)
  \/ \E e \in ConnectErrors : ConnectFails(1, e)
  \/ \E out \in HandlerOutcomes, dok \in BOOLEAN : HandlerSettles(1, out, dok)
  \/ Finish(1)
  \/ \E e \in ReuseEnvironments : SetEnv(e)

SpecReuse == InitReuse /\ [][NextReuse]_vars

\* ------------------------------------------------------------------------
\* The resolution specification: consecutive withMiniProgram calls whose
\* overrides and environment define the same fields with different values,
\* leave them out, or violate the schema, so that resolveConfig is applied
\* to every combination of the three layers that a session can produce.
\* ------------------------------------------------------------------------
MaxResolveCalls == 2

WsY == <<"ws://y">>

ResolveOverrides ==
  {Undef,
   EmptyObject,
   [projectPath |-> Str(PathP)],
   [projectPath |-> Str(PathP), port |-> Num(42), cliPath |-> Str(<<"/cli">>)],
   [projectPath |-> Str(PathP), autoClose |-> Bool(FALSE)],
   [projectPath |-> Str(PathP), args |-> Arr(<<>>)],
   [projectPath |-> Str(PathP), args |-> Str(<<" ">>)],
   [projectPath |-> Str(PathP), args |-> Arr(<<<<>>, <<" ">>>>)],
   [wsEndpoint |-> Str(WsX)],
   [wsEndpoint |-> Str(<<" ", "ws://y">>)],
   [mode |-> Str(LAUNCH)],
   [mode |-> Str(LAUNCH), projectPath |-> Str(PathQ), wsEndpoint |-> Str(WsX)],
   [mode |-> Str(CONNECT)],
   [projectPath |-> Str(PathP), port |-> Num(0)],
   [projectPath |-> Str(PathP), cwd |-> Str(<<" ">>)],
   [projectPath |-> Num(5)]}

ResolveEnvironments ==
  {EmptyObject,
   [WEAPP_WS_ENDPOINT |-> Str(WsX), WEAPP_DEVTOOLS_PORT |-> Str(<<"7">>)],
   [WEAPP_AUTOMATOR_MODE |-> Str(LAUNCH), WEAPP_WS_ENDPOINT |-> Str(WsX),
    WEAPP_AUTOCLOSE |-> Str(<<"true">>)],
   [WEAPP_DEVTOOLS_TIMEOUT |-> Str(<<"0">>)],
   [WEAPP_DEVTOOLS_CWD |-> Str(<<" ">>)]}

InitResolve == InitWith(ResolveEnvironments, 0)

NextResolve ==
  \/ \E ov \in ResolveOverrides :
       CallWithMiniProgram(1, ov, FALSE, TRUE, MaxResolveCalls)
  \/ CloseSettles(1, TRUE)
  \/ CloseReturns(1, TRUE)
  \/ ConnectSucceeds(1)
  \/ ConnectFails(1, Str(<<"timeout">>))
  \/ HandlerSettles(1, Return(Str(<<"ok">>)), TRUE)
  \/ Finish(1)
  \/ \E e \in ResolveEnvironments : SetEnv(e)

SpecResolve == InitResolve /\ [][NextResolve]_vars

\* ------------------------------------------------------------------------
\* The log-access specification: getConsoleLogs, clearConsoleLogs and the
\* mp_getLogs tool, called between the events of a session, by callers
\* that keep and change the arrays they were given.
\* ------------------------------------------------------------------------
MaxCopyCalls == 1
MaxCopyEvents == 2
MaxCopies == 2

\* The state a first withMiniProgram({projectPath}) call leaves: a launched
\* session with its listeners attached and nothing logged yet.
InitCopies ==
  /\ miniProgram = 1
  /\ config = resolveConfig([projectPath |-> Str(PathP)], Undef, EmptyObject).config
  /\ handles = <<[NewHandle("launch") EXCEPT !.listeners = TRUE]>>
  /\ copies = <<>>
  /\ consoleLogs = <<>>
  /\ arrived = <<>>
  /\ clock = 0
  /\ env = EmptyObject
  /\ pc = [p \in Procs |-> "idle"]
  /\ frame = [p \in Procs |-> IdleFrame]
  /\ last = [op |-> "withMiniProgram",
             overrides |-> [projectPath |-> Str(PathP)],
             env |-> EmptyObject,
             config |-> config,
             connects |-> 1,
             teardowns |-> 0,
             failed |-> NoHandle,
             opened |-> 1,
             result |-> Return(Str(<<"ok">>))]
  /\ started = 0

NextCopies ==
  \/ CallWithMiniProgram(1, [wsEndpoint |-> Str(WsX)], FALSE, TRUE, MaxCopyCalls)
  \/ CloseSettles(1, TRUE)
  \/ CloseReturns(1, TRUE)
  \/ ConnectSucceeds(1)
  \/ HandlerSettles(1, Return(Str(<<"ok">>)), TRUE)
  \/ Finish(1)
  \/ \E h \in DOMAIN handles, ev \in LogConsoleEvents :
       ConsoleEvent(h, ev, MaxCopyEvents)
  \/ \E h \in DOMAIN handles, ev \in ExceptionEvents :
       ExceptionEvent(h, ev, MaxCopyEvents)
  \/ ClearConsoleLogs
  \/ GetConsoleLogs(MaxCopies)
  \/ \E i \in DOMAIN copies : MutateCopy(i)
  \/ \E clear \in BOOLEAN : GetLogsTool(clear)

SpecCopies == InitCopies /\ [][NextCopies]_vars

\* ------------------------------------------------------------------------
\* The overlap specification: two callers on one manager, each making
\* withMiniProgram and close calls; a caller runs up to its next await and
\* the other may run in between, as may the listeners of any handle.  A
\* call that is waiting is resumed sooner or later; nothing obliges a
\* client to make a call.
\* ------------------------------------------------------------------------
MaxRaceCalls == 3
MaxRaceEvents == 1

InitRace == InitWith(SpecEnvironments, 0)

NextRace ==
  \/ \E p \in Procs, ov \in LogOverrides :
       CallWithMiniProgram(p, ov, FALSE, TRUE, MaxRaceCalls)
  \/ \E p \in Procs : CallClose(p, TRUE, MaxRaceCalls)
  \/ \E p \in Procs, ok \in BOOLEAN : CloseSettles(p, ok)
  \/ \E p \in Procs : CloseReturns(p, TRUE)
  \/ \E p \in Procs : ConnectSucceeds(p)
  \/ \E p \in Procs : ConnectFails(p, Str(<<"timeout">>))
  \/ \E p \in Procs : HandlerSettles(p, Return(Str(<<"ok">>)), TRUE)
  \/ \E p \in Procs : Finish(p)
  \/ \E h \in DOMAIN handles, ev \in LogConsoleEvents :
       ConsoleEvent(h, ev, MaxRaceEvents)

\* What the event loop runs once the awaited promise has settled: the rest
\* of a call after one of its awaits.
RaceContinuations ==
  \/ \E p \in Procs, ok \in BOOLEAN : CloseSettles(p, ok)
  \/ \E p \in Procs : CloseReturns(p, TRUE)
  \/ \E p \in Procs : ConnectSucceeds(p)
  \/ \E p \in Procs : ConnectFails(p, Str(<<"timeout">>))
  \/ \E p \in Procs : HandlerSettles(p, Return(Str(<<"ok">>)), TRUE)
  \/ \E p \in Procs : Finish(p)

SpecRace == InitRace /\ [][NextRace]_vars /\ WF_vars(RaceContinuations)

\* ------------------------------------------------------------------------
\* Properties
\* ------------------------------------------------------------------------
IsWith(p) == frame[p].op \in {"withMiniProgram", "withPage"}
TeardownCalls(h) == h.closeCalls + h.disconnectCalls

\* C1: with serialized calls, in every state the manager holds a handle if
\* and only if it holds a config, and the config it holds is the one the
\* handle was opened with.
C1_HandleIffConfig ==
  /\ (miniProgram # NoHandle) <=> (config # Undef)
  /\ miniProgram # NoHandle =>
       /\ miniProgram \in DOMAIN handles
       /\ handles[miniProgram].mode = HandleMode(config)

\* A connect has just succeeded: handle and config were set together.
C1_Witness ==
  /\ pc[1] = "handlerAwait"
  /\ frame[1].opened # NoHandle
  /\ miniProgram = frame[1].opened
  /\ config = frame[1].config

SameInputsAsLast(p) ==
  /\ pc[p] # "idle"
  /\ IsWith(p)
  /\ last.op \in {"withMiniProgram", "withPage"}
  /\ frame[p].overrides = last.overrides
  /\ frame[p].env = last.env

\* C2 as stated: two consecutive calls with identical overrides and the
\* same environment, the first of which opened a session and the second
\* of which does not force a reconnect, invoke connect/launch exactly once
\* in total.
C2_Original ==
  \A p \in Procs :
    (/\ pc[p] = "done"
     /\ SameInputsAsLast(p)
     /\ last.opened # NoHandle
     /\ ~frame[p].reconnect)
      => last.connects + frame[p].connects = 1

\* C2 amended: if moreover the resolved config does not ask for auto-close
\* and the second call does not ask for reconnect, the second call invokes
\* no connect/launch and runs on the handle the first call opened.
C2_ReuseWithoutAutoClose ==
  \A p \in Procs :
    (/\ SameInputsAsLast(p)
     /\ last.opened # NoHandle
     /\ ~Truthy(last.config.autoClose)
     /\ ~frame[p].reconnect)
      => /\ last.connects = 1
         /\ frame[p].connects = 0
         /\ frame[p].teardowns = 0
         /\ frame[p].activeProgram = last.opened
         /\ miniProgram = last.opened

C2_Witness ==
  /\ pc[1] = "done"
  /\ SameInputsAsLast(1)
  /\ last.opened # NoHandle
  /\ ~Truthy(last.config.autoClose)
  /\ ~frame[1].reconnect
  /\ Get(frame[1].overrides, "args") # Undef
  /\ frame[1].invoked = 1

Reconnected(p) ==
  \/ pc[p] \in {"connectAwait", "handlerAwait", "pageAwait", "done"}
  \/ frame[p].site = "auto"

ChangedConfig(p) ==
  /\ IsWith(p)
  /\ frame[p].resolved.ok
  /\ frame[p].before.miniProgram # NoHandle
  /\ frame[p].before.config # frame[p].config

\* C3: a call that finds a session and resolves to a config different from
\* the stored one in any field never runs on the old handle: the old handle
\* gets its teardown call at once, and connect/launch is invoked again
\* before anything else happens.
C3_ChangedConfigReconnects ==
  \A p \in Procs :
    ChangedConfig(p) =>
      LET old == frame[p].before.miniProgram
      IN /\ frame[p].activeProgram # old
         /\ TeardownCalls(handles[old]) =
              TeardownCalls(frame[p].before.handles[old]) + 1
         /\ Reconnected(p) => frame[p].connects = 1 /\ miniProgram # old
         /\ frame[p].invoked > 0 => frame[p].activeProgram = frame[p].opened
         /\ frame[p].activeProgram # NoHandle =>
              frame[p].activeProgram = frame[p].opened

\* The stored and the resolved config differ in the order of args only.
C3_Witness ==
  /\ ChangedConfig(1)
  /\ pc[1] = "handlerAwait"
  /\ frame[1].connects = 1
  /\ frame[1].before.config.args.t = "array"
  /\ frame[1].config.args.t = "array"
  /\ Range(frame[1].before.config.args.a) = Range(frame[1].config.args.a)
  /\ Len(frame[1].before.config.args.a) = Len(frame[1].config.args.a)
  /\ \A k \in ScalarFields : frame[1].before.config[k] = frame[1].config[k]

\* C4: a call whose resolved config has autoClose = true ends, whether the
\* operation returned or raised, with no handle and no config.
C4_AutoCloseLeavesNoSession ==
  \A p \in Procs :
    (/\ pc[p] = "done"
     /\ IsWith(p)
     /\ frame[p].resolved.ok
     /\ frame[p].config.autoClose = Bool(TRUE))
      => miniProgram = NoHandle /\ config = Undef

\* The operation ran on a session and raised.
C4_Witness ==
  /\ pc[1] = "done"
  /\ IsWith(1)
  /\ frame[1].resolved.ok
  /\ frame[1].config.autoClose = Bool(TRUE)
  /\ frame[1].invoked = 1
  /\ frame[1].result.kind = "raise"
  /\ frame[1].teardowns > 0

\* C5: of two close calls in a row neither raises, and the second makes no
\* close/disconnect call and changes nothing.
C5_CloseIdempotent ==
  \A p \in Procs :
    (pc[p] # "idle" /\ frame[p].op = "close" /\ last.op = "close")
      => /\ last.result = Return(Undef)
         /\ frame[p].teardowns = 0
         /\ miniProgram = NoHandle
         /\ config = Undef
         /\ handles = frame[p].before.handles
         /\ frame[p].before.miniProgram = NoHandle
         /\ frame[p].before.config = Undef
         /\ pc[p] = "done" => frame[p].result = Return(Undef)

\* The first of the two close calls tore a session down.
C5_Witness ==
  /\ pc[1] = "done"
  /\ frame[1].op = "close"
  /\ last.op = "close"
  /\ last.teardowns = 1

\* A handle whose teardown was attempted and failed (it is still open and
\* no close() on it is pending).
TeardownFailed(h) ==
  /\ TeardownCalls(handles[h]) > 0
  /\ handles[h].status = "open"
  /\ \A p \in Procs : ~(pc[p] = "closeAwait" /\ frame[p].closing = h)

\* C6: a failing close/disconnect does not make close raise, is reported by
\* a warning when a logger was passed, and leaves no session: the failed
\* handle is dropped and never torn down again, and the call after a failed
\* close goes on to connect without any teardown.
C6_FailedCloseStillClears ==
  /\ \A p \in Procs :
       pc[p] = "closeReturned" => miniProgram = NoHandle /\ config = Undef
  /\ \A p \in Procs :
       (pc[p] = "done" /\ frame[p].op = "close") => frame[p].result = Return(Undef)
  /\ \A p \in Procs :
       (IsWith(p) /\ frame[p].failed # NoHandle) => frame[p].warns > 0
  /\ \A h \in DOMAIN handles :
       TeardownFailed(h) => miniProgram # h /\ TeardownCalls(handles[h]) = 1
  /\ \A p \in Procs :
       (/\ IsWith(p)
        /\ frame[p].resolved.ok
        /\ last.op = "close"
        /\ last.failed # NoHandle)
         => /\ frame[p].before.miniProgram = NoHandle
            /\ \/ frame[p].connects = 1
               \/ pc[p] = "closeReturned" /\ frame[p].teardowns = 0

\* The call after an explicit close that failed is awaiting its connect.
C6_Witness ==
  /\ pc[1] = "connectAwait"
  /\ last.op = "close"
  /\ last.failed # NoHandle
  /\ TeardownFailed(last.failed)
  /\ frame[1].teardowns = 0

\* C7: when connect/launch fails, the call raises a UserError whose text
\* says "connect to" exactly when the mode is connect and "launch"
\* otherwise and ends with the underlying message; the operation was not
\* invoked and the manager holds neither handle nor config.
C7_ConnectFailure ==
  \A p \in Procs :
    (pc[p] = "done" /\ frame[p].connectError # Undef) =>
      LET underlying == IF frame[p].connectError.t = "error"
                        THEN frame[p].connectError.message
                        ELSE frame[p].connectError.s
          text == frame[p].result.error.message
      IN /\ frame[p].result.kind = "raise"
         /\ frame[p].result.error.name = "UserError"
         /\ ("connect to" \in Range(text)) <=> (frame[p].config.mode = Str(CONNECT))
         /\ ("launch" \in Range(text)) <=> (frame[p].config.mode # Str(CONNECT))
         /\ Len(text) > Len(underlying)
         /\ SubSeq(text, Len(text) - Len(underlying) + 1, Len(text)) = underlying
         /\ frame[p].invoked = 0
         /\ frame[p].activeProgram = NoHandle
         /\ miniProgram = NoHandle
         /\ config = Undef

\* A connect-mode attempt failed.
C7_Witness ==
  /\ pc[1] = "done"
  /\ frame[1].connectError # Undef
  /\ frame[1].config.mode = Str(CONNECT)
  /\ frame[1].before.miniProgram # NoHandle

\* C8: the log buffer never holds more than 1000 entries.
C8_BufferBounded == Len(consoleLogs) <= 1000

\* More than 1000 events have arrived since the last clear.
C8_Witness == Len(arrived) > 1000 /\ Len(consoleLogs) = 1000

\* C9: the buffer is the sequence of the most recent min(n, 1000) of the n
\* entries appended since the last clear, in arrival order.
C9_BufferIsRecentSuffix ==
  LET n == Len(arrived)
      kept == IF n < 1000 THEN n ELSE 1000
  IN consoleLogs = SubSeq(arrived, n - kept + 1, n)

\* 1001 events of both kinds: 1000 entries are left, the first one is gone.
C9_Witness ==
  /\ Len(arrived) = 1001
  /\ Len(consoleLogs) = 1000
  /\ \A i \in DOMAIN consoleLogs : consoleLogs[i] # arrived[1]
  /\ consoleLogs[1000].type = <<"exception">>
  /\ consoleLogs[999].type # <<"exception">>

MandatoryPresent(c) ==
  /\ c.mode \in {Str(CONNECT), Str(LAUNCH)}
  /\ c.mode = Str(CONNECT) => c.wsEndpoint.t = "string" /\ c.wsEndpoint.s # <<>>
  /\ c.mode = Str(LAUNCH) => c.projectPath.t = "string" /\ c.projectPath.s # <<>>

\* No layer of the call of p gives the field: neither the overrides, nor
\* the environment variable, nor the stored config.
MissingEverywhere(p, key, variable) ==
  /\ frame[p].overrides = Undef \/ Get(frame[p].overrides, key) = Undef
  /\ Get(frame[p].env, variable) = Undef
  /\ frame[p].before.config = Undef \/ frame[p].before.config[key] = Undef

Names(result, key) ==
  /\ ~result.ok
  /\ result.error = "ConfigError"
  /\ key \in Range(result.message)

\* C10: a config returned by resolveConfig, and so a stored config, has the
\* mandatory field of its mode; a ConfigError names wsEndpoint or
\* projectPath; and when the schema accepts the layers, resolveConfig fails
\* with the ConfigError naming the field whenever the mode asked for is
\* connect and no layer gives wsEndpoint, or launch and no layer gives
\* projectPath, or no layer gives either field.
C10_MandatoryField ==
  /\ config # Undef => MandatoryPresent(config)
  /\ \A p \in Procs :
       IsWith(p) =>
         LET r == frame[p].resolved
             asked == IF frame[p].overrides = Undef THEN Undef
                      ELSE Get(frame[p].overrides, "mode")
             accepted == r.ok \/ r.error = "ConfigError"
             noWs == MissingEverywhere(p, "wsEndpoint", "WEAPP_WS_ENDPOINT")
             noPath == MissingEverywhere(p, "projectPath", "no such variable")
         IN /\ r.ok => MandatoryPresent(r.config)
            /\ (~r.ok /\ r.error = "ConfigError") =>
                 Names(r, "wsEndpoint") # Names(r, "projectPath")
            /\ (accepted /\ asked = Str(CONNECT) /\ noWs) => Names(r, "wsEndpoint")
            /\ (accepted /\ asked = Str(LAUNCH) /\ noPath) => Names(r, "projectPath")
            /\ (accepted /\ noWs /\ noPath) => ~r.ok

\* resolveConfig({mode: "connect"}) with no wsEndpoint anywhere.
C10_Witness ==
  /\ pc[1] = "done"
  /\ IsWith(1)
  /\ Get(frame[1].overrides, "mode") = Str(CONNECT)
  /\ MissingEverywhere(1, "wsEndpoint", "WEAPP_WS_ENDPOINT")
  /\ Names(frame[1].resolved, "wsEndpoint")

\* The value each layer gives a field in the call of p: the overrides and
\* the environment as the schema parses them, the previous-session config
\* as the call found it stored.
OverrideValue(p, key) ==
  IF frame[p].overrides = Undef THEN Undef
  ELSE fieldSchema(key, Get(frame[p].overrides, key)).v

EnvValue(p, key) == fieldSchema(key, Get(envObject(frame[p].env), key)).v

PreviousValue(p, key) ==
  IF frame[p].before.config = Undef THEN Undef ELSE frame[p].before.config[key]

C12_PreviousPersists ==
  \A p \in Procs :
    (IsWith(p) /\ frame[p].resolved.ok /\ frame[p].before.config # Undef) =>
      \A k \in FieldSet \ {"mode"} :
        (/\ fromPreviousKeeps(frame[p].before.config, k)
         /\ OverrideValue(p, k) = Undef
         /\ EnvValue(p, k) = Undef)
          => frame[p].resolved.config[k] = frame[p].before.config[k]

\* C13: once a launch-mode session has been established, no later call
\* that does not supply projectPath fails for a missing project path.
C13_ProjectPathPersists ==
  \A p \in Procs :
    (/\ IsWith(p)
     /\ \E h \in DOMAIN frame[p].before.handles :
          frame[p].before.handles[h].mode = "launch"
     /\ OverrideValue(p, "projectPath") = Undef)
      => ~Names(frame[p].resolved, "projectPath")

\* The schema accepted both layers of the call of p.
SchemaAccepts(p) ==
  /\ connectionOverridesSchema(envObject(frame[p].env)).ok
  /\ frame[p].overrides = Undef \/ connectionOverridesSchema(frame[p].overrides).ok

\* The mode resolveConfig settled on: the mode of the config it returned,
\* or the mode whose mandatory field its ConfigError names.
ResolvedMode(p) ==
  IF frame[p].resolved.ok THEN frame[p].resolved.config.mode
  ELSE IF Names(frame[p].resolved, "wsEndpoint") THEN Str(CONNECT) ELSE Str(LAUNCH)

ExplicitMode(p) ==
  IF OverrideValue(p, "mode") # Undef THEN OverrideValue(p, "mode")
  ELSE EnvValue(p, "mode")

\* The wsEndpoint of the merge: a previous session's endpoint never
\* reaches it, the environment layer overwrites it.
MergedEndpoint(p) ==
  IF OverrideValue(p, "wsEndpoint") # Undef THEN OverrideValue(p, "wsEndpoint")
  ELSE EnvValue(p, "wsEndpoint")

\* C14: when neither the overrides nor the environment give a mode, the
\* mode is connect if the merge carries a wsEndpoint, else the mode of the
\* previous session if there is one, else launch.
C14_ModeInference ==
  \A p \in Procs :
    (IsWith(p) /\ SchemaAccepts(p) /\ ExplicitMode(p) = Undef) =>
      ResolvedMode(p) =
        IF MergedEndpoint(p) # Undef THEN Str(CONNECT)
        ELSE IF frame[p].before.config # Undef THEN frame[p].before.config.mode
             ELSE Str(LAUNCH)

\* A launch session is active and the call gives only a wsEndpoint.
C14_Witness ==
  /\ pc[1] = "done"
  /\ IsWith(1)
  /\ ExplicitMode(1) = Undef
  /\ frame[1].before.config # Undef
  /\ frame[1].before.config.mode = Str(LAUNCH)
  /\ frame[1].overrides = [wsEndpoint |-> Str(WsX)]
  /\ frame[1].resolved.ok
  /\ frame[1].resolved.config.mode = Str(CONNECT)

\* C15: a mode given by the overrides, or else by the environment, is the
\* resolved mode whatever wsEndpoint the layers carry and whatever the
\* mode of the previous session; when that mode is launch, resolveConfig
\* fails with the ConfigError naming projectPath exactly when no layer
\* gives a projectPath.
C15_ExplicitModeWins ==
  \A p \in Procs :
    (IsWith(p) /\ SchemaAccepts(p) /\ ExplicitMode(p) # Undef) =>
      /\ ResolvedMode(p) = ExplicitMode(p)
      /\ ExplicitMode(p) = Str(LAUNCH) =>
           /\ MissingEverywhere(p, "projectPath", "no such variable")
                => Names(frame[p].resolved, "projectPath")
           /\ ~MissingEverywhere(p, "projectPath", "no such variable")
                => /\ frame[p].resolved.ok
                   /\ frame[p].resolved.config.mode = Str(LAUNCH)
                   /\ Truthy(frame[p].resolved.config.projectPath)

\* launch is asked for explicitly while the call carries a wsEndpoint in
\* its overrides and in its environment, and a connect session is active.
C15_Witness ==
  /\ pc[1] = "handlerAwait"
  /\ IsWith(1)
  /\ OverrideValue(1, "mode") = Str(LAUNCH)
  /\ OverrideValue(1, "wsEndpoint") = Str(WsX)
  /\ EnvValue(1, "wsEndpoint") = Str(WsX)
  /\ frame[1].before.config # Undef
  /\ frame[1].before.config.mode = Str(CONNECT)
  /\ frame[1].resolved.ok
  /\ frame[1].resolved.config.mode = Str(LAUNCH)
  /\ frame[1].resolved.config.wsEndpoint = Str(WsX)

\* C17: when the schema rejects the environment or the overrides,
\* resolveConfig fails with a ConfigError and the caller of withMiniProgram
\* receives a UserError.
C17_SchemaFailureIsConfigError ==
  \A p \in Procs :
    (IsWith(p) /\ ~SchemaAccepts(p)) =>
      /\ ~frame[p].resolved.ok
      /\ frame[p].resolved.error = "ConfigError"
      /\ pc[p] = "done" =>
           /\ frame[p].result.kind = "raise"
           /\ frame[p].result.error.name = "UserError"

\* The handle a call runs its operation on: the one it opened, or else the
\* one it found.
SessionHandle(p) ==
  IF frame[p].opened # NoHandle THEN frame[p].opened ELSE frame[p].before.miniProgram

\* C18: in withPage, when currentPage() gives no page the call raises the
\* UserError of the empty page stack, the caller's operation is not
\* invoked, and the auto-close step still tears the session down; when it
\* gives a page the operation is invoked once, with that page, the active
\* handle and the resolved config.
C18_WithPage ==
  \A p \in Procs :
    frame[p].op = "withPage" =>
      /\ frame[p].invoked <= 1
      /\ frame[p].page = Undef =>
           /\ frame[p].invoked = 0
           /\ frame[p].pageArg = NoResult
           /\ frame[p].result = Raise(UserError(PageStackEmpty))
           /\ Truthy(frame[p].config.autoClose) =>
                /\ frame[p].site = "auto"
                /\ TeardownCalls(handles[frame[p].activeProgram]) = 1
                /\ pc[p] = "done" => miniProgram = NoHandle /\ config = Undef
           /\ ~Truthy(frame[p].config.autoClose) =>
                pc[p] = "done" /\ miniProgram = frame[p].activeProgram
      /\ frame[p].invoked = 1 =>
           /\ frame[p].page.t = "object"
           /\ frame[p].pageArg = frame[p].page
           /\ frame[p].activeProgram # NoHandle
           /\ frame[p].activeProgram = SessionHandle(p)
           /\ frame[p].handlerConfig = frame[p].resolved.config
           /\ pc[p] = "handlerAwait" => miniProgram = frame[p].activeProgram

\* A withPage call with autoClose found no page and has ended.
C18_Witness ==
  /\ pc[1] = "done"
  /\ frame[1].op = "withPage"
  /\ frame[1].page = Undef
  /\ frame[1].invoked = 0
  /\ Truthy(frame[1].config.autoClose)
  /\ frame[1].teardowns = 1
  /\ frame[1].result = Raise(UserError(PageStackEmpty))

\* C19: a call whose operation was invoked ends with exactly what the
\* operation returned or raised; a teardown that fails in the auto-close
\* step is reported by a warning and does not change that result.
C19_ResultPropagates ==
  \A p \in Procs :
    (pc[p] = "done" /\ IsWith(p) /\ frame[p].outcome # NoResult) =>
      /\ frame[p].result = frame[p].outcome
      /\ frame[p].failed # NoHandle => frame[p].warns > 0

\* The operation raised and the auto-close teardown then failed.
C19_Witness ==
  /\ pc[1] = "done"
  /\ frame[1].op = "withMiniProgram"
  /\ frame[1].outcome = Raise(UserError(<<"boom">>))
  /\ frame[1].result = frame[1].outcome
  /\ frame[1].site = "auto"
  /\ frame[1].failed = frame[1].activeProgram
  /\ frame[1].warns = 1

\* C20: a call with reconnect = true whose config resolves makes the
\* teardown call on the handle it found at once, invokes connect/launch
\* exactly once, after that teardown has settled and before the operation
\* runs, and runs the operation on the handle that connect returned, never
\* on the handle it found.
C20_ReconnectAlwaysReopens ==
  \A p \in Procs :
    (IsWith(p) /\ frame[p].reconnect /\ frame[p].resolved.ok) =>
      LET old == frame[p].before.miniProgram
      IN /\ old # NoHandle =>
              /\ TeardownCalls(handles[old]) =
                   TeardownCalls(frame[p].before.handles[old]) + 1
              /\ frame[p].activeProgram # old
              /\ frame[p].connects > 0 =>
                   ~(pc[p] = "closeAwait" /\ frame[p].closing = old)
         /\ frame[p].connects <= 1
         /\ Reconnected(p) => frame[p].connects = 1
         /\ frame[p].activeProgram # NoHandle =>
              /\ frame[p].activeProgram = frame[p].opened
              /\ frame[p].opened \notin DOMAIN frame[p].before.handles
         /\ frame[p].invoked > 0 => frame[p].activeProgram # NoHandle

\* The resolved config equals the stored one field for field, and the
\* operation is running on a newly opened handle.
C20_Witness ==
  /\ pc[1] = "handlerAwait"
  /\ IsWith(1)
  /\ frame[1].reconnect
  /\ frame[1].before.miniProgram # NoHandle
  /\ frame[1].before.config = frame[1].config
  /\ frame[1].connects = 1
  /\ frame[1].activeProgram = frame[1].opened
  /\ frame[1].activeProgram # frame[1].before.miniProgram

\* C21: a handle opened in connect mode only ever gets disconnect() calls
\* and a handle opened in launch mode only ever gets close() calls,
\* whatever the mode of the config resolved by the call that tears it down.
C21_TeardownByStoredMode ==
  \A h \in DOMAIN handles :
    /\ handles[h].mode = "connect" => handles[h].closeCalls = 0
    /\ handles[h].mode = "launch" => handles[h].disconnectCalls = 0
    /\ h # miniProgram => TeardownCalls(handles[h]) = 1

\* A call that resolved a launch config has torn down a connect session.
C21_Witness ==
  /\ IsWith(1)
  /\ frame[1].resolved.ok
  /\ frame[1].config.mode = Str(LAUNCH)
  /\ frame[1].before.miniProgram # NoHandle
  /\ handles[frame[1].before.miniProgram].mode = "connect"
  /\ handles[frame[1].before.miniProgram].disconnectCalls = 1
  /\ pc[1] = "connectAwait"

\* The teardown of handle h has been called and is not pending any more.
TeardownCompleted(h) ==
  /\ TeardownCalls(handles[h]) > 0
  /\ \A p \in Procs : ~(pc[p] = "closeAwait" /\ frame[p].closing = h)

C26_HandlerArguments ==
  \A p \in Procs :
    pc[p] \in {"pageAwait", "handlerAwait"} =>
      /\ frame[p].activeProgram # NoHandle
      /\ frame[p].activeProgram = miniProgram
      /\ handles[frame[p].activeProgram].status = "open"
      /\ TeardownCalls(handles[frame[p].activeProgram]) = 0
      /\ config # Undef
      /\ isSameConfig(config, frame[p].handlerConfig)
      /\ frame[p].handlerConfig = config
      /\ handles[frame[p].activeProgram].mode = HandleMode(frame[p].handlerConfig)

\* The operation runs on a session that an earlier call opened.
C26_Witness ==
  /\ pc[1] = "handlerAwait"
  /\ frame[1].invoked = 1
  /\ frame[1].opened = NoHandle
  /\ frame[1].connects = 0
  /\ frame[1].activeProgram = frame[1].before.miniProgram
  /\ frame[1].handlerConfig.projectPath = Str(PathP)

\* C23: once the teardown of a handle has completed, the handle has no
\* listener, is not the manager's handle, and no step appends an event of
\* it to the buffer or gives it a listener again; every event that is
\* appended comes from the handle the manager holds.
C23_NoStaleEvents ==
  [][\A h \in DOMAIN handles :
       /\ TeardownCompleted(h) =>
            /\ ~handles[h].listeners
            /\ h # miniProgram
            /\ handles'[h].emitted = handles[h].emitted
            /\ ~handles'[h].listeners
       /\ handles'[h].emitted # handles[h].emitted => h = miniProgram]_vars

\* The first session was closed after its events, and the session opened
\* after it has captured an event.
C23_Witness ==
  /\ Len(handles) = 2
  /\ TeardownCompleted(1)
  /\ handles[1].emitted > 0
  /\ miniProgram = 2
  /\ handles[2].emitted > 0

\* The overrides as an object, and two overrides that agree on every field
\* but args, where both leave args out or give it a value the schema
\* normalizes to nothing.
AsObject(overrides) == IF overrides = Undef THEN EmptyObject ELSE overrides

IsBlank(s) == \A i \in DOMAIN s : IsSpace(s[i])

\* Absent, an empty list, a blank string or a list of blank strings.
EmptyArgs(v) ==
  \/ v = Undef
  \/ v.t = "string" /\ IsBlank(v.s)
  \/ v.t = "array" /\ \A i \in DOMAIN v.a : IsBlank(v.a[i])

DifferOnlyInEmptyArgs(a, b) ==
  /\ Get(AsObject(a), "args") # Get(AsObject(b), "args")
  /\ EmptyArgs(Get(AsObject(a), "args"))
  /\ EmptyArgs(Get(AsObject(b), "args"))
  /\ \A k \in FieldSet \ {"args"} : Get(AsObject(a), k) = Get(AsObject(b), k)

C30_StableUnderFeedback ==
  \A p \in Procs :
    (IsWith(p) /\ frame[p].resolved.ok) =>
      LET c == frame[p].resolved.config
          again == resolveConfig(frame[p].overrides, c, frame[p].env)
      IN /\ again.ok
         /\ again.config = c
         /\ isSameConfig(c, again.config)

\* c takes its projectPath from the previous config and its mode from the
\* overrides' wsEndpoint.
C30_Witness ==
  /\ pc[1] = "done"
  /\ IsWith(1)
  /\ frame[1].resolved.ok
  /\ frame[1].before.config # Undef
  /\ frame[1].before.config.mode = Str(LAUNCH)
  /\ OverrideValue(1, "projectPath") = Undef
  /\ frame[1].resolved.config.projectPath = frame[1].before.config.projectPath
  /\ frame[1].resolved.config.mode = Str(CONNECT)
  /\ frame[1].resolved.config # frame[1].before.config

\* C24: the array getConsoleLogs returns holds the buffer's entries in
\* their order and is not the buffer: no step changes both the buffer and
\* an array returned earlier, so a caller changing its array leaves the
\* buffer alone and an event or a clear leaves the returned arrays alone;
\* taking the logs changes nothing, and a step that empties the buffer
\* leaves handle, config and handles as they were.
C24_DefensiveCopy ==
  [][/\ consoleLogs' # consoleLogs =>
          \A i \in DOMAIN copies : copies'[i].items = copies[i].items
     /\ Len(copies') > Len(copies) =>
          /\ copies'[Len(copies')].items = consoleLogs
          /\ consoleLogs' = consoleLogs
          /\ UNCHANGED manager
     /\ (consoleLogs # <<>> /\ consoleLogs' = <<>>) =>
          /\ UNCHANGED manager
          /\ Len(copies') = Len(copies)]_vars

\* An array was returned with one entry, the caller of a second array has
\* emptied it, and an event has arrived since.
C24_Witness ==
  /\ Len(copies) = 2
  /\ Len(copies[1].items) = 1
  /\ copies[2].items = <<>>
  /\ Len(consoleLogs) = 2
  /\ copies[1].items = SubSeq(consoleLogs, 1, 1)

\* C29: a call of mp_getLogs returns the count and the entries of the
\* buffer as it was when called, in order; with clear = true the buffer is
\* empty afterwards and with clear = false it is unchanged; handle, config,
\* handles and every call in progress are left as they were.
C29_GetLogsTool ==
  [][(last' # last /\ last'.op = "mp_getLogs") =>
       /\ last'.result.kind = "return"
       /\ last'.result.value.count = Len(consoleLogs)
       /\ last'.result.value.logs = consoleLogs
       /\ consoleLogs' = IF last'.clear THEN <<>> ELSE consoleLogs
       /\ UNCHANGED <<miniProgram, config, handles, pc, frame>>]_vars

\* mp_getLogs with clear = true has returned two entries of an open
\* session and left the buffer empty.
C29_Witness ==
  /\ last.op = "mp_getLogs"
  /\ last.clear
  /\ last.result.value.count = 2
  /\ last.result.value.logs = last.before
  /\ consoleLogs = <<>>
  /\ miniProgram # NoHandle

\* Both callers are inside withMiniProgram, each at one of its awaits.
Overlap ==
  \A p \in Procs : /\ frame[p].op = "withMiniProgram"
                    /\ pc[p] \in {"connectAwait", "closeAwait", "handlerAwait"}

PairingBroken ==
  \/ (miniProgram # NoHandle) # (config # Undef)
  \/ /\ miniProgram # NoHandle
     /\ \/ handles[miniProgram].mode # HandleMode(config)
        \/ \E p \in Procs : frame[p].opened = miniProgram
                              /\ frame[p].config # config

\* C27 (as claimed): when the withMiniProgram/close sequences of two
\* callers overlap at their awaits, a state follows in which the manager
\* holds a handle without a config, a config without a handle, or a handle
\* with a config that did not produce it.
C27_Original == Overlap ~> PairingBroken

\* C27 (as the code behaves): under every interleaving of two callers the
\* manager holds a handle if and only if it holds a config, the handle
\* was opened in the mode of that config, and the caller that opened the
\* handle resolved exactly that config.
C27_PairingSurvivesOverlap ==
  /\ (miniProgram # NoHandle) <=> (config # Undef)
  /\ miniProgram # NoHandle =>
       /\ handles[miniProgram].mode = HandleMode(config)
       /\ \A p \in Procs : frame[p].opened = miniProgram =>
                               frame[p].config = config

\* Both callers found no session and both connected: the second handle has
\* replaced the first while the first caller's operation is still running.
C27_Witness ==
  /\ pc[1] = "handlerAwait"
  /\ pc[2] = "handlerAwait"
  /\ frame[1].opened = 1
  /\ frame[2].opened = 2
  /\ miniProgram = 2
  /\ frame[1].config # frame[2].config
  /\ config = frame[2].config

\* C28: under every interleaving of two callers and the events, every
\* handle whose listeners are still attached is the handle the manager
\* holds: the reference to a handle is never cleared or overwritten before
\* its listeners are removed.
C28_NoDanglingListeners ==
  \A h \in DOMAIN handles : handles[h].listeners => h = miniProgram

\* C31: a withMiniProgram call whose configuration does not resolve (a
\* mandatory field is missing or the schema rejects a layer) ends at once,
\* with reconnect asked or not: handle, config and handles are as the call
\* found them, and the call has made no teardown, no connect and no
\* invocation of the operation.
C31_ResolveFailureChangesNothing ==
  \A p \in Procs :
    (IsWith(p) /\ ~frame[p].resolved.ok) =>
      /\ pc[p] = "done"
      /\ frame[p].result.kind = "raise"
      /\ miniProgram = frame[p].before.miniProgram
      /\ config = frame[p].before.config
      /\ handles = frame[p].before.handles
      /\ frame[p].teardowns = 0
      /\ frame[p].connects = 0
      /\ frame[p].invoked = 0

\* A call with reconnect = true found an open session and failed to
\* resolve: the session is still open.
C31_Witness ==
  /\ pc[1] = "done"
  /\ IsWith(1)
  /\ ~frame[1].resolved.ok
  /\ frame[1].reconnect
  /\ miniProgram # NoHandle
  /\ handles[miniProgram].status = "open"
  /\ handles[miniProgram].listeners

\* What a call ends with when its operation was reached and raised: what
\* the caller's operation raised, or the empty page stack of withPage.
OperationRaised(result) ==
  /\ result.kind = "raise"
  /\ \/ result \in HandlerOutcomes
     \/ result = Raise(UserError(PageStackEmpty))

\* C32: when the operation raises and the resolved config does not ask for
\* auto-close, the call ends with the session it ran on still held, open
\* and listening, with the config of the call and no teardown made on it;
\* and a following call that resolves the same config (reconnect not
\* asked) makes no teardown and no connect and runs on that same handle.
C32_RaiseKeepsSession ==
  \A p \in Procs :
    /\ (/\ pc[p] = "done"
        /\ IsWith(p)
        /\ frame[p].activeProgram # NoHandle
        /\ OperationRaised(frame[p].result)
        /\ ~Truthy(frame[p].config.autoClose)) =>
         /\ miniProgram = frame[p].activeProgram
         /\ config = frame[p].config
         /\ handles[miniProgram].status = "open"
         /\ handles[miniProgram].listeners
         /\ TeardownCalls(handles[miniProgram]) = 0
    /\ (/\ pc[p] # "idle"
        /\ IsWith(p)
        /\ frame[p].resolved.ok
        /\ ~frame[p].reconnect
        /\ last.op \in {"withMiniProgram", "withPage"}
        /\ OperationRaised(last.result)
        /\ ~Truthy(last.config.autoClose)
        /\ isSameConfig(last.config, frame[p].config)) =>
         /\ frame[p].before.miniProgram # NoHandle
         /\ frame[p].connects = 0
         /\ frame[p].teardowns = 0
         /\ frame[p].activeProgram = frame[p].before.miniProgram
         /\ miniProgram = frame[p].before.miniProgram

\* The operation of a call raised, and the next call, with the same
\* config, has run its operation on the same session.
C32_Witness ==
  /\ pc[1] = "done"
  /\ IsWith(1)
  /\ last.op = "withPage"
  /\ last.result = Raise(UserError(PageStackEmpty))
  /\ last.opened # NoHandle
  /\ ~Truthy(last.config.autoClose)
  /\ frame[1].resolved.ok
  /\ isSameConfig(last.config, frame[1].config)
  /\ ~frame[1].reconnect
  /\ frame[1].outcome = Raise(UserError(<<"boom">>))
  /\ frame[1].activeProgram = last.opened
  /\ miniProgram = last.opened

\* C33: a step of a call (close, auto-close, forced reconnect, reconnect
\* after a config change, connect, failed connect, the operation, the
\* return to the caller) leaves the log buffer as it is; the buffer changes
\* only when an event arrives, which appends the new entry behind the
\* entries already there (dropping at most the oldest one), or when it is
\* cleared.
C33_OnlyEventsAndClearChangeLogs ==
  [][/\ (pc' # pc \/ frame' # frame \/ miniProgram' # miniProgram
            \/ config' # config) =>
          consoleLogs' = consoleLogs
     /\ consoleLogs' # consoleLogs =>
          \/ /\ clock' = clock + 1
             /\ Len(arrived') = Len(arrived) + 1
             /\ \E k \in 0..1 :
                  consoleLogs' =
                    SubSeq(Append(consoleLogs, arrived'[Len(arrived')]),
                           1 + k, Len(consoleLogs) + 1)
          \/ /\ consoleLogs' = <<>>
             /\ UNCHANGED <<clock, manager, pc, frame>>]_vars

\* The first session logged an event and was closed; a second session was
\* opened and logged an event: both entries are in the buffer, in order.
C33_Witness ==
  /\ Len(handles) = 2
  /\ handles[1].status # "open"
  /\ ~handles[1].listeners
  /\ handles[1].emitted = 1
  /\ handles[2].emitted = 1
  /\ miniProgram = 2
  /\ Len(consoleLogs) = 2
  /\ consoleLogs = arrived
  /\ consoleLogs[1].timestamp < consoleLogs[2].timestamp

\* C34: when a close call overlaps another close on one manager (the
\* close of an auto-close, of a reconnect or another close call, still
\* awaiting the handle's termination), the close call completes without
\* raising, and once two close calls have both completed the manager holds
\* no session.
C34_OverlappingCloses ==
  /\ \A p \in Procs :
       (pc[p] = "done" /\ frame[p].op = "close") => frame[p].result.kind # "raise"
  /\ (\A p \in Procs : pc[p] = "done" /\ frame[p].op = "close") =>
       miniProgram = NoHandle /\ config = Undef

\* Every handle that connect/launch returned is the one the manager holds
\* or has had close() or disconnect() called on it.
NoHandleLeaked ==
  \A h \in DOMAIN handles : h = miniProgram \/ TeardownCalls(handles[h]) > 0

\* No withMiniProgram call has made a teardown of the handle it found while
\* the operation of the other caller is running on that handle.
NoTeardownUnderOperation ==
  \A p \in Procs, q \in Procs :
    (/\ p # q
     /\ pc[p] = "handlerAwait"
     /\ frame[q].op = "withMiniProgram"
     /\ frame[q].before.miniProgram = frame[p].activeProgram) =>
       frame[q].teardowns = 0

\* C35: under every interleaving of two overlapping withMiniProgram calls,
\* every handle the manager opened is the active handle or has been torn
\* down by the manager, and no handle is torn down by one call while the
\* operation of the other call is running on it.
C35_NoLeakNoTeardownUnderOperation ==
  NoHandleLeaked /\ NoTeardownUnderOperation

====
